---------------------------- MODULE Spec2Model ----------------------------
(***************************************************************************)
(* The rumqtt client event loop (src/src/client/connection.rs) as a state  *)
(* machine: the reconnection supervisor (mqtt_eventloop), one session      *)
(* (mqtt_future: request stream, reply stream and ping stream merged into  *)
(* the network sink), the bounded request and notification channels, and   *)
(* the user threads at the other end of them.                              *)
(*                                                                         *)
(* MqttState (client::mqttstate) is not among the analysed sources.  Its   *)
(* operations are written from the specification, sections 3 and 4.3, and  *)
(* are the definitions from next_pkid to is_ping_required below.           *)
(***************************************************************************)
EXTENDS Integers, Sequences, FiniteSets, TLC

\* ------------------------------------------------------------- bounds
\* Packet identifiers range over 1..MaxPkid (1..65535 in the program).
MaxPkid == 2
\* Requests the user threads submit in one run of the general environment.
MaxRequests == 2
\* Packets the broker sends inside sessions in one run of the general environment.
MaxIncoming == 1
\* Successful connections in one run.
MaxConnections == 2
\* Keep-alive pings issued on one connection.
MaxPings == 1
\* Broker packets in one run of the publishing-broker environment (InitNotify).
MaxPublishes == 12
\* Requests the user threads submit in one run of that environment.
MaxNotifyRequests == 1
\* Broker packets in one run of the QoS2-delivery environment (InitQos2).
MaxDeliveries == 3
\* Client ids given to set_client_id have at most this many characters.
MaxIdLen == 2
\* Sizes, rates and queue sizes given to the setters range over 0..MaxArg;
\* keep-alive seconds over 0..MinKeepAlive + MaxArg.
MaxArg == 2
\* Payloads of the publishes given to the codec have at most this many bytes.
MaxPayload == 2
\* Broker packets in one run of the QoS2-publishing environment (InitPublishQos2).
MaxAcks == 3
\* Requests the user threads submit in one run of the queueing environment
\* (InitQueued): one more than the request channel holds.
MaxQueued == 11

\* ------------------------------------------------- program constants
\* crossbeam_channel::bounded(10)
NotificationChannelBound == 10
\* mpsc::channel::<Request>(10)
RequestChannelBound == 10

\* if secs < 10 { panic!(..) }
MinKeepAlive == 10
\* self.max_packet_size = sz * 1024
KiloByte == 1024

\* ---------------------------------------------------------- options
ReconnectKinds == {"Never", "AfterFirstSuccess", "Always"}

\* MqttOptions, reduced to the fields the event loop reads.  The sleep
\* time of AfterFirstSuccess(t) / Always(t) is not represented.
OptionsWith(capacities) ==
    [id : {0}, clean_session : BOOLEAN, reconnect : ReconnectKinds,
     notification_channel_capacity : capacities]

\* Options with the default notification_channel_capacity
DefaultCapacityOptions == OptionsWith({10})

\* Options with notification_channel_capacity set to 1, and the default
SmallCapacityOptions == OptionsWith({1, 10})

\* Options that always reconnect, with the default capacity
AlwaysReconnectOptions == {o \in DefaultCapacityOptions : o.reconnect = "Always"}

\* The options carried by a Request::Reconnect
NewOptions ==
    [id |-> 1, clean_session |-> FALSE, reconnect |-> "Always",
     notification_channel_capacity |-> 10]

\* A client id is a sequence of characters
ClientIdChars == {" ", "c"}

ClientIds == UNION {[1..n -> ClientIdChars] : n \in 0..MaxIdLen}

\* impl Default for MqttOptions, the validated fields; None is <<>>, Some(r) is <<r>>
DefaultMqttOptions ==
    [client_id |-> <<"t", "e", "s", "t", "-", "c", "l", "i", "e", "n", "t">>,
     keep_alive |-> 30,
     max_packet_size |-> 256 * 1024,
     outgoing_ratelimit |-> <<>>,
     outgoing_queuelimit |-> 100]

\* A setter returns with the value stored, or panics before it stores
Stored(opts) == [panic |-> FALSE, opts |-> opts]

Panics(opts) == [panic |-> TRUE, opts |-> opts]

\* set_client_id storing whatever it is given
set_client_id_unchecked(opts, client_id) ==
    Stored([opts EXCEPT !.client_id = client_id])

set_client_id(opts, client_id) ==
    IF (client_id # <<>> /\ Head(client_id) = " ") \/ client_id = <<>>
    THEN Panics(opts)
    ELSE Stored([opts EXCEPT !.client_id = client_id])

set_keep_alive(opts, secs) ==
    IF secs < MinKeepAlive THEN Panics(opts)
    ELSE Stored([opts EXCEPT !.keep_alive = secs])

set_max_packet_size(opts, sz) ==
    Stored([opts EXCEPT !.max_packet_size = sz * KiloByte])

set_outgoing_ratelimit(opts, rate) ==
    IF rate = 0 THEN Panics(opts)
    ELSE Stored([opts EXCEPT !.outgoing_ratelimit = <<rate>>])

set_outgoing_queuelimit(opts, queue_size) ==
    IF queue_size = 0 THEN Panics(opts)
    ELSE Stored([opts EXCEPT !.outgoing_queuelimit = queue_size])

\* The last call made on the options value: through a setter of MqttOptions
\* or through the method of MqttOptionsBuilder that delegates to it
Call(via, name, arg, panicked) ==
    [via |-> via, name |-> name, arg |-> arg, panicked |-> panicked]

\* ---------------------------------------------------------- packets
Pkt(t, id, qos, dup) == [t |-> t, id |-> id, qos |-> qos, dup |-> dup]

NoPacket == Pkt("None", 0, 0, FALSE)

Pkids == 1..MaxPkid

\* A broker that delivers QoS1 publishes, acknowledges QoS1 publishes
\* (also ones that are not in flight) and answers pings
Qos1Broker ==
    {Pkt("Publish", 1, 1, FALSE), Pkt("Pingresp", 0, 0, FALSE)}
    \cup {Pkt("Puback", i, 0, FALSE) : i \in Pkids}

\* A broker that only delivers QoS0 publishes
PublishOnly == {Pkt("Publish", 0, 0, FALSE)}

\* A broker that delivers publishes the client has to acknowledge
AckedPublishes == {Pkt("Publish", 1, 1, FALSE)}

\* A broker that delivers one QoS2 message: the Publish, its retransmissions
\* and the PubRel
Qos2Broker ==
    {Pkt("Publish", 1, 2, FALSE), Pkt("Publish", 1, 2, TRUE), Pkt("Pubrel", 1, 0, FALSE)}

\* A broker that acknowledges QoS2 publishes (also ones that are not in flight)
Qos2Acks ==
    {Pkt("Pubrec", i, 0, FALSE) : i \in Pkids} \cup {Pkt("Pubcomp", i, 0, FALSE) : i \in Pkids}

\* Users that publish at QoS2
Qos2Requests == {"Publish2"}

\* Users that publish at QoS0 and put Request::None on the channel
SentinelRequests == {"Publish0", "None"}

\* Users that publish at QoS1, subscribe, unsubscribe, disconnect and reconnect
Qos1Requests == {"Publish1", "Subscribe", "Unsubscribe", "Disconnect", "Reconnect"}

\* Users that publish at QoS0
Qos0Requests == {"Publish0"}

\* ---------------------------------------------- MqttCodec (specification)
\* The remaining-length field: 7 bits a byte, least significant group
\* first, the top bit set on every byte but the last
RECURSIVE encode_remaining_length(_)
encode_remaining_length(n) ==
    IF n \div 128 > 0
    THEN <<(n % 128) + 128>> \o encode_remaining_length(n \div 128)
    ELSE <<n % 128>>

\* The field at the head of bytes: its value and the bytes it takes; at
\* most 4 bytes, and a field cut short or longer than that is an error
RECURSIVE read_remaining_length(_, _, _, _)
read_remaining_length(bytes, i, multiplier, value) ==
    IF i > 4 \/ i > Len(bytes) THEN [ok |-> FALSE, value |-> 0, used |-> 0]
    ELSE LET v == value + (bytes[i] % 128) * multiplier
         IN IF bytes[i] < 128 THEN [ok |-> TRUE, value |-> v, used |-> i]
            ELSE read_remaining_length(bytes, i + 1, multiplier * 128, v)

decode_remaining_length(bytes) == read_remaining_length(bytes, 1, 1, 0)

AckTypes == {"Puback", "Pubrec", "Pubrel", "Pubcomp"}

BareTypes == {"Pingreq", "Pingresp", "Disconnect"}

\* The packet type in the high nibble of the first byte
TypeCode(t) ==
    CASE t = "Publish" -> 3 [] t = "Puback" -> 4 [] t = "Pubrec" -> 5
      [] t = "Pubrel" -> 6 [] t = "Pubcomp" -> 7 [] t = "Pingreq" -> 12
      [] t = "Pingresp" -> 13 [] t = "Disconnect" -> 14

TypeOf(code) ==
    IF \E t \in {"Publish"} \cup AckTypes \cup BareTypes : TypeCode(t) = code
    THEN CHOOSE t \in {"Publish"} \cup AckTypes \cup BareTypes : TypeCode(t) = code
    ELSE "Unknown"

\* A u16 that keeps its low byte only
U16_low_byte(n) == <<0, n % 256>>

\* A u16, big endian
U16(n) == <<n \div 256, n % 256>>

ReadU16(bytes, i) == bytes[i] * 256 + bytes[i + 1]

\* The topic name of the publishes given to the codec, length-prefixed
TopicBytes == U16(1) \o <<116>>

\* A packet with its payload, as the codec takes and returns it
Framed(pkt, payload) == [pkt |-> pkt, payload |-> payload]

CodecError == Framed(Pkt("CodecError", 0, 0, FALSE), <<>>)

\* Fixed header (type, flags, remaining length), variable header, payload
encode_packet(v) ==
    LET p == v.pkt
        flags == IF p.t = "Publish" THEN (IF p.dup THEN 8 ELSE 0) + p.qos * 2
                 ELSE IF p.t = "Pubrel" THEN 2
                 ELSE 0
        body == IF p.t = "Publish"
                THEN TopicBytes \o (IF p.qos > 0 THEN U16(p.id) ELSE <<>>) \o v.payload
                ELSE IF p.t \in AckTypes THEN U16(p.id)
                ELSE <<>>
    IN <<TypeCode(p.t) * 16 + flags>> \o encode_remaining_length(Len(body)) \o body

decode_publish(flags, body) ==
    LET qos == (flags \div 2) % 4
        rest == SubSeq(body, 3 + ReadU16(body, 1), Len(body))
    IN IF qos > 0
       THEN Framed(Pkt("Publish", ReadU16(rest, 1), qos, flags \div 8 = 1),
                   SubSeq(rest, 3, Len(rest)))
       ELSE Framed(Pkt("Publish", 0, 0, flags \div 8 = 1), rest)

decode_packet(bytes) ==
    LET t == TypeOf(bytes[1] \div 16)
        flags == bytes[1] % 16
        rl == decode_remaining_length(Tail(bytes))
        body == SubSeq(bytes, 2 + rl.used, Len(bytes))
    IN IF ~rl.ok \/ Len(body) # rl.value \/ t = "Unknown" THEN CodecError
       ELSE IF t = "Publish" THEN decode_publish(flags, body)
       ELSE IF t \in AckTypes THEN Framed(Pkt(t, ReadU16(body, 1), 0, FALSE), <<>>)
       ELSE Framed(Pkt(t, 0, 0, FALSE), <<>>)

\* Packet ids given to the codec: small ones and ones that need the high byte
CodecIds == Pkids \cup {256, 65535}

Payloads == {[i \in 1..n |-> 7] : n \in 0..MaxPayload}

\* The valid packets given to the codec
CodecPackets ==
    {Framed(Pkt("Publish", 0, 0, FALSE), payload) : payload \in Payloads}
    \cup {Framed(Pkt("Publish", c[1], c[2], c[3]), c[4]) :
             c \in CodecIds \X {1, 2} \X BOOLEAN \X Payloads}
    \cup {Framed(Pkt(c[1], c[2], 0, FALSE), <<>>) : c \in AckTypes \X CodecIds}
    \cup {Framed(Pkt(t, 0, 0, FALSE), <<>>) : t \in BareTypes}

\* The remaining lengths at which the number of bytes changes
BoundaryLengths == {0, 127, 128, 16383, 16384, 2097151, 2097152, 268435455}

CodecFrame(kind, value, phase, bytes, out) ==
    [kind |-> kind, value |-> value, phase |-> phase, bytes |-> bytes, out |-> out]

NoFrame == CodecFrame("none", <<>>, "idle", <<>>, <<>>)

\* ------------------------------------------------ MqttState (specification)
SeqIds(s) == {s[i].id : i \in 1..Len(s)}

RECURSIVE walk_pkid(_, _, _)
walk_pkid(candidate, tries, used) ==
    IF tries = 0 THEN 0
    ELSE IF candidate \notin used THEN candidate
    ELSE walk_pkid((candidate % MaxPkid) + 1, tries - 1, used)

\* next_pkid that takes the candidate without looking at the ids in use
next_pkid_no_skip(st) == (st.last_pkid % MaxPkid) + 1

\* The walking allocator; 0 stands for PacketIdsExhausted
next_pkid(st) ==
    walk_pkid((st.last_pkid % MaxPkid) + 1, MaxPkid,
              SeqIds(st.outgoing_pub) \cup st.outgoing_rel)

\* MqttState::new
NewMqttState(options) ==
    [opts |-> options,
     connection_status |-> "Disconnected",
     await_pingresp |-> FALSE,
     idle |-> FALSE,
     last_pkid |-> 0,
     outgoing_pub |-> <<>>,
     outgoing_rel |-> {},
     incoming_pub |-> {}]

Result(err, st, pkt) == [err |-> err, st |-> st, pkt |-> pkt]

\* handle_outgoing for a Publish
handle_outgoing_publish(st, p) ==
    IF p.qos = 0 THEN Result("Ok", st, p)
    ELSE LET pkid == next_pkid(st)
             stamped == Pkt("Publish", pkid, p.qos, FALSE)
         IN IF pkid = 0 THEN Result("PacketIdsExhausted", st, NoPacket)
            ELSE Result("Ok",
                        [st EXCEPT !.last_pkid = pkid,
                                   !.outgoing_pub = Append(@, stamped)],
                        stamped)

\* handle_outgoing: the packet to send, the new state, or an error
handle_outgoing_mqtt_packet(st, p) ==
    LET r == IF st.connection_status = "Disconnecting"
                THEN Result("InvalidState", st, NoPacket)
             ELSE IF p.t = "Publish" THEN handle_outgoing_publish(st, p)
             ELSE IF p.t = "Pubrel"
                THEN IF p.id \in st.outgoing_rel THEN Result("Ok", st, p)
                     ELSE Result("UnsolicitedPubRel", st, NoPacket)
             ELSE IF p.t = "Subscribe"
                THEN LET pkid == next_pkid(st)
                     IN IF pkid = 0 THEN Result("PacketIdsExhausted", st, NoPacket)
                        ELSE Result("Ok", [st EXCEPT !.last_pkid = pkid],
                                    Pkt("Subscribe", pkid, 0, FALSE))
             ELSE IF p.t = "Disconnect"
                THEN Result("Ok", [st EXCEPT !.connection_status = "Disconnecting"], p)
             ELSE Result("Ok", st, p)
    IN IF r.err = "Ok" THEN [r EXCEPT !.st.idle = FALSE] ELSE r

InResult(err, st, notification, reply) ==
    [err |-> err, st |-> st, notification |-> notification, reply |-> reply]

\* RemoveId that leaves the entry where it is
RemoveId_kept(s, id) == s

RemoveId(s, id) == SelectSeq(s, LAMBDA e : e.id # id)

\* handle_incoming: the notification for the user and the reply to send
handle_incoming_mqtt_packet(st, p) ==
    LET none == NoPacket
        fail(e) == InResult(e, st, none, none)
        r == CASE p.t = "Publish" /\ p.qos = 0 -> InResult("Ok", st, p, none)
               [] p.t = "Publish" /\ p.qos = 1 ->
                    InResult("Ok", st, p, Pkt("Puback", p.id, 0, FALSE))
               [] p.t = "Publish" /\ p.qos = 2 ->
                    IF p.id \notin st.incoming_pub
                    THEN InResult("Ok", [st EXCEPT !.incoming_pub = @ \cup {p.id}],
                                  p, Pkt("Pubrec", p.id, 0, FALSE))
                    ELSE InResult("Ok", st, none, Pkt("Pubrec", p.id, 0, FALSE))
               [] p.t = "Puback" ->
                    IF p.id \in SeqIds(st.outgoing_pub)
                    THEN InResult("Ok", [st EXCEPT !.outgoing_pub = RemoveId(@, p.id)],
                                  p, none)
                    ELSE fail("UnsolicitedAck")
               [] p.t = "Pubrec" ->
                    IF p.id \in SeqIds(st.outgoing_pub)
                    THEN InResult("Ok",
                                  [st EXCEPT !.outgoing_pub = RemoveId(@, p.id),
                                             !.outgoing_rel = @ \cup {p.id}],
                                  p, Pkt("Pubrel", p.id, 0, FALSE))
                    ELSE fail("UnsolicitedAck")
               [] p.t = "Pubrel" ->
                    IF p.id \in st.incoming_pub
                    THEN InResult("Ok", [st EXCEPT !.incoming_pub = @ \ {p.id}],
                                  p, Pkt("Pubcomp", p.id, 0, FALSE))
                    ELSE fail("UnsolicitedPubRel")
               [] p.t = "Pubcomp" ->
                    InResult("Ok", [st EXCEPT !.outgoing_rel = @ \ {p.id}], p, none)
               [] p.t = "Pingresp" ->
                    InResult("Ok", [st EXCEPT !.await_pingresp = FALSE], none, none)
               [] p.t = "Connack" -> fail("InvalidState")
               [] OTHER -> InResult("Ok", st, p, none)
    IN IF r.err = "Ok" THEN [r EXCEPT !.st.idle = FALSE] ELSE r

\* Building the Connect packet.  The specification has it require
\* Disconnected and fail with InvalidState otherwise, names no operation
\* that brings a session state back to Disconnected, and yet has the
\* supervisor reconnect with the same session state (4.4, 8 scenario 3).
\* Both outcomes are kept for a state that is not Disconnected: the
\* failure of the first sentence and the handshake of the others.
handle_outgoing_connect(st) ==
    LET ok == Result("Ok", [st EXCEPT !.connection_status = "Handshaking"], NoPacket)
    IN IF st.connection_status = "Disconnected" THEN {ok}
       ELSE {ok, Result("InvalidState", st, NoPacket)}

\* ConnAck: legal only while Handshaking; return code 0 connects
handle_incoming_connack(st, code) ==
    IF st.connection_status # "Handshaking" THEN Result("InvalidState", st, NoPacket)
    ELSE IF code = 0
        THEN Result("Ok", [st EXCEPT !.connection_status = "Connected",
                                     !.await_pingresp = FALSE,
                                     !.idle = FALSE], NoPacket)
    ELSE Result("ConnAckFailed", st, NoPacket)

RECURSIVE SetToSeq(_)
SetToSeq(S) ==
    IF S = {} THEN <<>>
    ELSE LET m == CHOOSE x \in S : \A y \in S : x <= y
         IN <<m>> \o SetToSeq(S \ {m})

ReplayDup(pubs) == [i \in 1..Len(pubs) |-> [pubs[i] EXCEPT !.dup = TRUE]]

ReplayRel(rels) ==
    LET ids == SetToSeq(rels)
    IN [i \in 1..Len(ids) |-> Pkt("Pubrel", ids[i], 0, FALSE)]

\* What a session replays when it is entered: after a non-clean resume the
\* in-flight publishes, dup set, ids and order kept, then the owed PubRels
handle_reconnection(st) ==
    IF st.opts.clean_session THEN <<>>
    ELSE ReplayDup(st.outgoing_pub) \o ReplayRel(st.outgoing_rel)

\* idle stands for now - max(last_outgoing, last_incoming) >= keep_alive
is_ping_required(st) ==
    st.connection_status = "Connected" /\ st.idle /\ ~st.await_pingresp

\* ------------------------------------------------------------- state
VARIABLES
    pc,                     \* where the event-loop thread is: connect, session, sleep, exited, panicked
    connection_count,       \* mqtt_eventloop's local counter
    mqttoptions,            \* Connection.mqttoptions
    mqtt_state,             \* Connection.mqtt_state
    rs,                     \* request stream of the session: user, replay, done
    last_session_publishes, \* the replay still to be emitted by the request stream
    reply_open,             \* the framed network stream has not ended
    npc,                    \* handle_notification: idle, or send (a send is about to be made)
    pending,                \* the notification being sent and the reply that follows it
    netout,                 \* what this connection's network sink was given, in order
    userrequests,           \* the request channel
    sender_alive,           \* some mpsc::Sender<Request> still exists
    notifications,          \* the notification channel
    notification_tx_alive,  \* some crossbeam Sender<Notification> still exists
    eos,                    \* a receiver has seen the end of the notification channel
    env,                    \* the environment of this run: its request and packet budget
    submitted,              \* requests put on the channel so far
    received,               \* broker packets delivered inside sessions so far
    connected_once,         \* some connection attempt has succeeded
    disconnect_sent,        \* a user Disconnect was written to the network
    last_error,             \* the error of the last failed connect or ended session
    notification_dropped,   \* some notification met a full channel
    inner,                  \* the MqttOptions value being configured (MqttOptionsBuilder.inner)
    setter,                 \* the last call made on it
    frame                   \* a value given to the codec, its bytes, and what is read back

\* What Connection::run and the threads around it work on
run_vars ==
    <<pc, connection_count, mqttoptions, mqtt_state, rs, last_session_publishes,
      reply_open, npc, pending, netout, userrequests, sender_alive, notifications,
      notification_tx_alive, eos, env, submitted, received, connected_once,
      disconnect_sent, last_error, notification_dropped>>

vars == <<run_vars, inner, setter, frame>>

loop_vars ==
    <<pc, connection_count, mqttoptions, mqtt_state, rs, last_session_publishes,
      reply_open, npc, pending, netout, connected_once, disconnect_sent, last_error,
      notification_dropped, notification_tx_alive, received, inner, setter, frame>>

NoPending == [notification |-> NoPacket, reply |-> NoPacket]

Written(pkt, from, seq) == [pkt |-> pkt, from |-> from, seq |-> seq]

\* Connection::run, up to the first pass of mqtt_eventloop's loop
InitWith(e, options) ==
    /\ mqttoptions \in options
    /\ mqtt_state = NewMqttState(mqttoptions)
    /\ pc = "connect"
    /\ connection_count = 1
    /\ rs = "user"
    /\ last_session_publishes = <<>>
    /\ reply_open = FALSE
    /\ npc = "idle"
    /\ pending = NoPending
    /\ netout = <<>>
    /\ userrequests = <<>>
    /\ sender_alive = TRUE
    /\ notifications = <<>>
    /\ notification_tx_alive = TRUE
    /\ eos = FALSE
    /\ env = e
    /\ submitted = 0
    /\ received = 0
    /\ connected_once = FALSE
    /\ disconnect_sent = FALSE
    /\ last_error = "none"
    /\ notification_dropped = FALSE
    /\ inner = DefaultMqttOptions
    /\ setter = Call("setter", "new", <<>>, FALSE)
    /\ frame = NoFrame

Environment(requests, request_kinds, packets, kinds) ==
    [requests |-> requests, request_kinds |-> request_kinds,
     packets |-> packets, kinds |-> kinds]

\* QoS1 traffic in both directions
Init ==
    InitWith(Environment(MaxRequests, Qos1Requests, MaxIncoming, Qos1Broker),
             DefaultCapacityOptions)

\* A broker that streams QoS0 publishes to a client that hardly sends
InitNotify ==
    InitWith(Environment(MaxNotifyRequests, Qos0Requests, MaxPublishes, PublishOnly),
             SmallCapacityOptions)

\* A broker that streams QoS1 publishes
InitAcked ==
    InitWith(Environment(MaxNotifyRequests, Qos0Requests, MaxPublishes, AckedPublishes),
             AlwaysReconnectOptions)

\* A broker that delivers a QoS2 message, with duplicates
InitQos2 ==
    InitWith(Environment(MaxNotifyRequests, Qos0Requests, MaxDeliveries, Qos2Broker),
             DefaultCapacityOptions)

\* A client that publishes at QoS2 to a broker that acknowledges
InitPublishQos2 ==
    InitWith(Environment(MaxRequests, Qos2Requests, MaxAcks, Qos2Acks),
             DefaultCapacityOptions)

\* Request::None among the user requests, and a broker whose packets need
\* no reply
InitSentinel ==
    InitWith(Environment(MaxRequests, SentinelRequests, MaxIncoming, PublishOnly),
             DefaultCapacityOptions)

\* Users that submit more requests than the request channel holds
InitQueued ==
    InitWith(Environment(MaxQueued, Qos0Requests, MaxIncoming, PublishOnly),
             AlwaysReconnectOptions)

\* MqttOptions::new(), before any Connection is run
InitOptions == InitWith(Environment(0, {}, 0, {}), {NewOptions})

\* ------------------------------------------------------------ codec
\* Nothing has been given to the codec yet
InitCodec == InitWith(Environment(0, {}, 0, {}), {NewOptions})

\* A packet, or a remaining length, is handed to the encoder
CodecGiven ==
    /\ frame.phase = "idle"
    /\ \/ \E v \in CodecPackets :
            frame' = CodecFrame("packet", v, "given", <<>>, <<>>)
       \/ \E n \in BoundaryLengths :
            frame' = CodecFrame("length", n, "given", <<>>, <<>>)
    /\ UNCHANGED <<run_vars, inner, setter>>

\* Encoder::encode appends the bytes
CodecEncode ==
    /\ frame.phase = "given"
    /\ frame' = [frame EXCEPT
                   !.phase = "encoded",
                   !.bytes = IF frame.kind = "packet" THEN encode_packet(frame.value)
                             ELSE encode_remaining_length(frame.value)]
    /\ UNCHANGED <<run_vars, inner, setter>>

\* Decoder::decode reads them back
CodecDecode ==
    /\ frame.phase = "encoded"
    /\ frame' = [frame EXCEPT
                   !.phase = "decoded",
                   !.out = IF frame.kind = "packet" THEN decode_packet(frame.bytes)
                           ELSE decode_remaining_length(frame.bytes)]
    /\ UNCHANGED <<run_vars, inner, setter>>

NextCodec ==
    \/ CodecGiven
    \/ CodecEncode
    \/ CodecDecode

SpecCodec == InitCodec /\ [][NextCodec]_vars

\* -------------------------------------------------- building options
\* A call of a setter, or of the builder method that delegates to it: the
\* value is stored unless the setter panics
Calls(name, arg, r) ==
    /\ inner' = r.opts
    /\ setter' = Call(setter.via, name, arg, r.panic)

\* MqttOptions::builder()
OptionsBuilder ==
    /\ setter.name = "new" /\ setter.via = "setter"
    /\ setter' = Call("builder", "new", <<>>, FALSE)
    /\ UNCHANGED <<run_vars, inner, frame>>

\* MqttOptionsBuilder::build
OptionsBuild ==
    /\ setter.via = "builder" /\ ~setter.panicked
    /\ setter' = Call("setter", "build", <<>>, FALSE)
    /\ UNCHANGED <<run_vars, inner, frame>>

SetClientId ==
    /\ ~setter.panicked
    /\ \E client_id \in ClientIds :
           Calls("set_client_id", client_id, set_client_id(inner, client_id))
    /\ UNCHANGED <<run_vars, frame>>

SetKeepAlive ==
    /\ ~setter.panicked
    /\ \E secs \in 0..(MinKeepAlive + MaxArg) :
           Calls("set_keep_alive", <<secs>>, set_keep_alive(inner, secs))
    /\ UNCHANGED <<run_vars, frame>>

SetMaxPacketSize ==
    /\ ~setter.panicked
    /\ \E sz \in 0..MaxArg :
           Calls("set_max_packet_size", <<sz>>, set_max_packet_size(inner, sz))
    /\ UNCHANGED <<run_vars, frame>>

SetOutgoingRatelimit ==
    /\ ~setter.panicked
    /\ \E rate \in 0..MaxArg :
           Calls("set_outgoing_ratelimit", <<rate>>, set_outgoing_ratelimit(inner, rate))
    /\ UNCHANGED <<run_vars, frame>>

SetOutgoingQueuelimit ==
    /\ ~setter.panicked
    /\ \E queue_size \in 0..MaxArg :
           Calls("set_outgoing_queuelimit", <<queue_size>>,
                 set_outgoing_queuelimit(inner, queue_size))
    /\ UNCHANGED <<run_vars, frame>>

NextOptions ==
    \/ OptionsBuilder
    \/ OptionsBuild
    \/ SetClientId
    \/ SetKeepAlive
    \/ SetMaxPacketSize
    \/ SetOutgoingRatelimit
    \/ SetOutgoingQueuelimit

SpecOptions == InitOptions /\ [][NextOptions]_vars

\* ------------------------------------------------------ user threads
\* RequestSender: a request is put on the request channel
UserSubmit ==
    /\ sender_alive
    /\ pc \notin {"exited", "panicked"}
    /\ submitted < env.requests
    /\ Len(userrequests) < RequestChannelBound
    /\ \E k \in env.request_kinds :
         userrequests' = Append(userrequests, [kind |-> k, seq |-> submitted + 1])
    /\ submitted' = submitted + 1
    /\ UNCHANGED <<loop_vars, sender_alive, notifications, eos, env>>

\* The last request sender is dropped
UserDropSender ==
    /\ sender_alive
    /\ sender_alive' = FALSE
    /\ UNCHANGED <<loop_vars, userrequests, notifications, eos, env, submitted>>

\* NotificationReceiver: a receive, by any of the consumer threads
NotificationRecv ==
    /\ ~eos
    /\ IF notifications # <<>>
       THEN notifications' = Tail(notifications) /\ eos' = eos
       ELSE ~notification_tx_alive /\ eos' = TRUE /\ notifications' = notifications
    /\ UNCHANGED <<loop_vars, userrequests, sender_alive, env, submitted>>

\* -------------------------------------------------------- supervisor
user_vars == <<sender_alive, eos, env, submitted, inner, setter, frame>>

\* reconnect_policy with the count compared to 0, as if it started at 0
reconnect_policy_from_zero(option, count) ==
    IF option = "AfterFirstSuccess" /\ count = 0 THEN "break"
    ELSE IF option = "AfterFirstSuccess" THEN "sleep"
    ELSE IF option = "Always" THEN "sleep"
    ELSE "break"

\* The match on reconnect_option after a failed connect and after an
\* ended session (the two matches are the same): break or sleep
reconnect_policy(option, count) ==
    IF option = "AfterFirstSuccess" /\ count = 1 THEN "break"
    ELSE IF option = "AfterFirstSuccess" THEN "sleep"
    ELSE IF option = "Always" THEN "sleep"
    ELSE "break"

\* run_thread_exit with a clone of notification_tx outliving the thread
run_thread_exit_leak(tx_alive) == tx_alive

\* The spawned closure returns (or unwinds): the Connection it owns is
\* dropped, and with it notification_tx and every clone of it
run_thread_exit(tx_alive) == FALSE

\* The session's future is dropped: its streams, the framed connection
\* and what its sink was given are gone
SessionDropped ==
    /\ rs' = "user"
    /\ last_session_publishes' = <<>>
    /\ reply_open' = FALSE
    /\ netout' = <<>>

SessionKept ==
    UNCHANGED <<rs, last_session_publishes, reply_open>>

\* LoopEnds with the error swallowed: the loop stays where it is
LoopEnds_swallowed(err) ==
    /\ last_error' = err
    /\ pc' = pc
    /\ SessionKept
    /\ netout' = netout
    /\ notification_tx_alive' = notification_tx_alive

\* An error ends the connect or the session: the policy is applied
LoopEnds(err) ==
    LET decision == reconnect_policy(mqttoptions.reconnect, connection_count)
    IN /\ last_error' = err
       /\ pc' = IF decision = "break" THEN "exited" ELSE "sleep"
       /\ SessionDropped
       /\ notification_tx_alive' =
            IF decision = "break" THEN run_thread_exit(notification_tx_alive)
            ELSE notification_tx_alive

\* unimplemented!() panics the event-loop thread
LoopPanics ==
    /\ last_error' = "panic"
    /\ pc' = "panicked"
    /\ SessionDropped
    /\ notification_tx_alive' = run_thread_exit(notification_tx_alive)

LoopContinues ==
    /\ pc' = pc
    /\ last_error' = last_error
    /\ notification_tx_alive' = notification_tx_alive

\* What the broker end of a connection attempt can do
ConnectResponses == {"TcpFailed", "Timeout", "NoResponse", "NotConnack", "Refused", "Accepted"}

\* check_and_validate_connack taking whatever arrives for a ConnAck(0)
check_and_validate_connack_any(response, st) == handle_incoming_connack(st, 0)

check_and_validate_connack(response, st) ==
    IF response = "Accepted" THEN handle_incoming_connack(st, 0)
    ELSE IF response = "Refused" THEN handle_incoming_connack(st, 5)
    ELSE IF response = "NotConnack" THEN Result("NotConnackPacket", st, NoPacket)
    ELSE Result("NoResponse", st, NoPacket)

\* mqtt_connect under the 30 s deadline.  The Connect packet is built
\* when mqtt_connect is called, before the TCP connect is attempted.
mqtt_connect(connect_packet, response) ==
    IF response = "TcpFailed" THEN Result("Io", connect_packet.st, NoPacket)
    ELSE IF connect_packet.err # "Ok" THEN connect_packet
    ELSE IF response = "Timeout" THEN Result("Timeout", connect_packet.st, NoPacket)
    ELSE check_and_validate_connack(response, connect_packet.st)

\* One pass of 'reconnection whose connect succeeds: the session is set up
MqttConnectOk ==
    /\ pc = "connect"
    /\ connection_count <= MaxConnections
    /\ \E c \in handle_outgoing_connect(mqtt_state), response \in ConnectResponses :
         LET r == mqtt_connect(c, response)
         IN /\ r.err = "Ok"
            /\ mqtt_state' = r.st
            /\ last_session_publishes' = handle_reconnection(r.st)
    /\ connection_count' = connection_count + 1
    /\ pc' = "session"
    /\ rs' = "user"
    /\ reply_open' = TRUE
    /\ netout' = <<>>
    /\ connected_once' = TRUE
    /\ last_error' = "none"
    /\ UNCHANGED <<mqttoptions, npc, pending, userrequests, notifications,
                   notification_tx_alive, received, disconnect_sent,
                   notification_dropped, user_vars>>

\* One pass of 'reconnection whose connect fails
MqttConnectFail ==
    /\ pc = "connect"
    /\ \E c \in handle_outgoing_connect(mqtt_state), response \in ConnectResponses :
         LET r == mqtt_connect(c, response)
         IN /\ r.err # "Ok"
            /\ mqtt_state' = r.st
            /\ LoopEnds(r.err)
    /\ UNCHANGED <<connection_count, mqttoptions, npc, pending, userrequests,
                   notifications, received, connected_once, disconnect_sent,
                   notification_dropped, user_vars>>

\* thread::sleep returns and the loop continues with the next pass
SleepOver ==
    /\ pc = "sleep"
    /\ pc' = "connect"
    /\ UNCHANGED <<connection_count, mqttoptions, mqtt_state, rs,
                   last_session_publishes, reply_open, npc, pending, netout,
                   userrequests, notifications, notification_tx_alive, received,
                   connected_once, disconnect_sent, last_error,
                   notification_dropped, user_vars>>

\* ----------------------------------------------------------- session
\* impl From<Request> for Packet; Unimplemented stands for unimplemented!()
request_into_packet(kind) ==
    CASE kind = "Publish0" -> Pkt("Publish", 0, 0, FALSE)
      [] kind = "Publish1" -> Pkt("Publish", 0, 1, FALSE)
      [] kind = "Publish2" -> Pkt("Publish", 0, 2, FALSE)
      [] kind = "Puback" -> Pkt("Puback", 0, 0, FALSE)
      [] kind = "Pubrec" -> Pkt("Pubrec", 0, 0, FALSE)
      [] kind = "Pubrel" -> Pkt("Pubrel", 0, 0, FALSE)
      [] kind = "Pubcomp" -> Pkt("Pubcomp", 0, 0, FALSE)
      [] kind = "Ping" -> Pkt("Pingreq", 0, 0, FALSE)
      [] kind = "Disconnect" -> Pkt("Disconnect", 0, 0, FALSE)
      [] kind = "Subscribe" -> Pkt("Subscribe", 0, 0, FALSE)
      [] OTHER -> Pkt("Unimplemented", 0, 0, FALSE)

\* validate_userrequest starting the session state afresh with the new options
validate_userrequest_fresh_state(userrequest, st) ==
    IF userrequest.kind = "Reconnect"
    THEN Result("UserReconnect", NewMqttState(NewOptions), NoPacket)
    ELSE Result("Ok", st, request_into_packet(userrequest.kind))

validate_userrequest(userrequest, st) ==
    IF userrequest.kind = "Reconnect"
    THEN Result("UserReconnect", [st EXCEPT !.opts = NewOptions], NoPacket)
    ELSE Result("Ok", st, request_into_packet(userrequest.kind))

\* take_userrequest passing over the oldest request when there is another
take_userrequest_skipping(queue) ==
    IF Len(queue) = 1 THEN [item |-> queue[1], rest |-> <<>>]
    ELSE [item |-> queue[2], rest |-> <<queue[1]>> \o SubSeq(queue, 3, Len(queue))]

\* take_userrequest taking the newest request first
take_userrequest_newest(queue) ==
    [item |-> queue[Len(queue)], rest |-> SubSeq(queue, 1, Len(queue) - 1)]

\* The next item of userrequest_rx and what stays queued
take_userrequest(queue) == [item |-> Head(queue), rest |-> Tail(queue)]

\* should_forward_packet and the conversion that follows it: a reply
\* other than None is given to the sink
forward_reply(sink, reply) ==
    IF reply.t = "None" THEN sink ELSE Append(sink, Written(reply, "reply", 0))

\* The request stream yields the packet of the next user request
RequestStreamUser ==
    /\ pc = "session" /\ npc = "idle"
    /\ rs = "user"
    /\ userrequests # <<>>
    /\ LET taken == take_userrequest(userrequests)
           v == validate_userrequest(taken.item, mqtt_state)
           r == handle_outgoing_mqtt_packet(mqtt_state, v.pkt)
       IN /\ userrequests' = taken.rest
          /\ IF v.err # "Ok"
             THEN /\ mqtt_state' = v.st
                  /\ LoopEnds(v.err)
                  /\ UNCHANGED disconnect_sent
             ELSE IF v.pkt.t = "Unimplemented"
             THEN /\ LoopPanics
                  /\ UNCHANGED <<mqtt_state, disconnect_sent>>
             ELSE IF r.err # "Ok"
             THEN /\ LoopEnds(r.err)
                  /\ UNCHANGED <<mqtt_state, disconnect_sent>>
             ELSE /\ mqtt_state' = r.st
                  /\ netout' = Append(netout, Written(r.pkt, "user", taken.item.seq))
                  /\ disconnect_sent' = (disconnect_sent \/ r.pkt.t = "Disconnect")
                  /\ LoopContinues
                  /\ SessionKept
    /\ UNCHANGED <<connection_count, mqttoptions, npc, pending, notifications,
                   received, connected_once, notification_dropped, user_vars>>

\* userrequest_rx has ended (every sender dropped, nothing queued): the
\* chain goes on with last_session_publishes, each through handle_outgoing
RequestStreamReplay ==
    /\ pc = "session" /\ npc = "idle"
    /\ \/ rs = "replay"
       \/ rs = "user" /\ userrequests = <<>> /\ ~sender_alive
    /\ IF last_session_publishes = <<>>
       THEN /\ rs' = "done"
            /\ LoopContinues
            /\ UNCHANGED <<mqtt_state, netout, last_session_publishes, reply_open>>
       ELSE LET r == handle_outgoing_mqtt_packet(mqtt_state, Head(last_session_publishes))
            IN IF r.err # "Ok"
               THEN LoopEnds(r.err) /\ UNCHANGED mqtt_state
               ELSE /\ rs' = "replay"
                    /\ last_session_publishes' = Tail(last_session_publishes)
                    /\ mqtt_state' = r.st
                    /\ netout' = Append(netout, Written(r.pkt, "replay", 0))
                    /\ LoopContinues
                    /\ UNCHANGED reply_open
    /\ UNCHANGED <<connection_count, mqttoptions, npc, pending,
                   userrequests, notifications, received, connected_once,
                   disconnect_sent, notification_dropped, user_vars>>

is_full(channel) == Len(channel) >= NotificationChannelBound

\* handle_notification sending Notification::None like any other
handle_notification_with_none(notification, channel) ==
    IF ~is_full(channel) THEN "send" ELSE "drop"

\* handle_notification without the is_full guard
handle_notification_unguarded(notification, channel) ==
    IF notification.t = "None" THEN "skip" ELSE "send"

\* handle_notification's match: whether notification_tx.send is called
handle_notification(notification, channel) ==
    IF notification.t = "None" THEN "skip"
    ELSE IF ~is_full(channel) THEN "send"
    ELSE "drop"

\* reply_after with the reply withheld when the notification was dropped
reply_after_dropping(h, reply) == IF h = "drop" THEN NoPacket ELSE reply

\* and_then(|(notification, reply)| { handle_notification(..); future::ok(reply) }):
\* the reply goes on whatever handle_notification did
reply_after(h, reply) == reply

\* The reply stream takes a packet from the broker: handle_incoming, then
\* handle_notification up to its is_full test, then the reply
NetworkReply ==
    /\ pc = "session" /\ npc = "idle"
    /\ reply_open
    /\ received < env.packets
    /\ received' = received + 1
    /\ \E p \in env.kinds :
         LET r == handle_incoming_mqtt_packet(mqtt_state, p)
             h == handle_notification(r.notification, notifications)
         IN IF r.err # "Ok"
            THEN /\ LoopEnds(r.err)
                 /\ UNCHANGED <<mqtt_state, npc, pending, notification_dropped>>
            ELSE /\ mqtt_state' = r.st
                 /\ LoopContinues
                 /\ SessionKept
                 /\ IF h = "send"
                    THEN /\ npc' = "send"
                         /\ pending' = [notification |-> r.notification,
                                      reply |-> reply_after(h, r.reply)]
                         /\ UNCHANGED <<netout, notification_dropped>>
                    ELSE /\ netout' = forward_reply(netout, reply_after(h, r.reply))
                         /\ notification_dropped' = (notification_dropped \/ h = "drop")
                         /\ UNCHANGED <<npc, pending>>
    /\ UNCHANGED <<connection_count, mqttoptions, userrequests, notifications,
                   connected_once, disconnect_sent, user_vars>>

\* notification_tx.send: it blocks while the channel is full
NotificationSend ==
    /\ pc = "session" /\ npc = "send"
    /\ Len(notifications) < NotificationChannelBound
    /\ notifications' = Append(notifications, pending.notification)
    /\ netout' = forward_reply(netout, pending.reply)
    /\ npc' = "idle"
    /\ pending' = NoPending
    /\ UNCHANGED <<pc, connection_count, mqttoptions, mqtt_state, rs,
                   last_session_publishes, reply_open, userrequests,
                   notification_tx_alive, received, connected_once,
                   disconnect_sent, last_error, notification_dropped, user_vars>>

\* The broker closes the connection: the framed stream ends
NetworkStreamEnd ==
    /\ pc = "session" /\ npc = "idle"
    /\ reply_open
    /\ reply_open' = FALSE
    /\ UNCHANGED <<pc, connection_count, mqttoptions, mqtt_state, rs,
                   last_session_publishes, npc, pending, netout, userrequests,
                   notifications, notification_tx_alive, received, connected_once,
                   disconnect_sent, last_error, notification_dropped, user_vars>>

\* An I/O or codec error of the framed stream or of the sink
NetworkError ==
    /\ pc = "session" /\ npc = "idle"
    /\ LoopEnds("Io")
    /\ UNCHANGED <<connection_count, mqttoptions, mqtt_state, npc, pending,
                   userrequests, notifications, received, connected_once,
                   disconnect_sent, notification_dropped, user_vars>>

\* The interval of the ping stream fails: map_err(|e| e.into())
PingStreamError ==
    /\ pc = "session" /\ npc = "idle"
    /\ LoopEnds("Timer")
    /\ UNCHANGED <<connection_count, mqttoptions, mqtt_state, npc, pending,
                   userrequests, notifications, received, connected_once,
                   disconnect_sent, notification_dropped, user_vars>>

\* keep_alive passes without a packet handled by the session state
TimePasses ==
    /\ pc = "session"
    /\ ~mqtt_state.idle
    /\ mqtt_state' = [mqtt_state EXCEPT !.idle = TRUE]
    /\ UNCHANGED <<pc, connection_count, mqttoptions, rs, last_session_publishes,
                   reply_open, npc, pending, netout, userrequests, notifications,
                   notification_tx_alive, received, connected_once, disconnect_sent,
                   last_error, notification_dropped, user_vars>>

\* The ping stream: an interval tick that passes the is_ping_required filter
PingTick ==
    /\ pc = "session" /\ npc = "idle"
    /\ is_ping_required(mqtt_state)
    /\ Cardinality({i \in 1..Len(netout) : netout[i].from = "ping"}) < MaxPings
    /\ netout' = Append(netout, Written(Pkt("Pingreq", 0, 0, FALSE), "ping", 0))
    /\ UNCHANGED <<pc, connection_count, mqttoptions, mqtt_state, rs,
                   last_session_publishes, reply_open, npc, pending, userrequests,
                   notifications, notification_tx_alive, received, connected_once,
                   disconnect_sent, last_error, notification_dropped, user_vars>>

Next ==
    \/ UserSubmit
    \/ UserDropSender
    \/ NotificationRecv
    \/ MqttConnectOk
    \/ MqttConnectFail
    \/ SleepOver
    \/ RequestStreamUser
    \/ RequestStreamReplay
    \/ NetworkReply
    \/ NotificationSend
    \/ NetworkStreamEnd
    \/ NetworkError
    \/ TimePasses
    \/ PingTick
    \/ PingStreamError

Spec == Init /\ [][Next]_vars

SpecNotify == InitNotify /\ [][Next]_vars

SpecAcked == InitAcked /\ [][Next]_vars

SpecQos2 == InitQos2 /\ [][Next]_vars

SpecPublishQos2 == InitPublishQos2 /\ [][Next]_vars

SpecSentinel == InitSentinel /\ [][Next]_vars

SpecQueued == InitQueued /\ [][Next]_vars

\* The user keeps receiving from the notification channel
FairSpec == Spec /\ WF_vars(NotificationRecv)

\* The keep-alive interval keeps ticking: time passes, and a tick that
\* passes the filter yields its PingReq
KeepAliveSpec == Spec /\ WF_vars(TimePasses) /\ WF_vars(PingTick)

\* ------------------------------------------------------------ claims
FromUser(i) == netout[i].from = "user"

\* C1: while replay items of the session are still unwritten, no packet
\* derived from a user request has been written on the connection.
C1_ReplayBeforeUserRequests ==
    (pc = "session" /\ last_session_publishes # <<>>)
        => \A i \in 1..Len(netout) : ~FromUser(i)

\* A replayed QoS1 publish is written by this step
ReplaysPublish ==
    /\ pc = "session" /\ pc' = "session"
    /\ last_session_publishes # <<>>
    /\ last_session_publishes' = Tail(last_session_publishes)
    /\ Head(last_session_publishes).t = "Publish"

\* C2: each replayed publish is written as it was buffered, dup set and
\* under its original id, and the replay leaves outgoing_pub and the id
\* allocator as they were.
C2_ReplayKeepsIdsAndTable ==
    [][ReplaysPublish =>
         /\ netout' = Append(netout, Written(Head(last_session_publishes), "replay", 0))
         /\ mqtt_state'.outgoing_pub = mqtt_state.outgoing_pub
         /\ mqtt_state'.last_pkid = mqtt_state.last_pkid]_vars

\* C3: after a failed connect or an ended session the supervisor exits
\* exactly when reconnect is Never, or AfterFirstSuccess with no connect
\* succeeded so far; otherwise it sleeps, and the sleep is followed by the
\* next connection attempt.  connection_count never decreases.
C3_ReconnectPolicy ==
    [][/\ (pc \in {"connect", "session"} /\ pc' \in {"exited", "sleep"})
            => ((pc' = "exited") <=>
                    \/ mqttoptions.reconnect = "Never"
                    \/ mqttoptions.reconnect = "AfterFirstSuccess" /\ ~connected_once)
       /\ pc = "sleep" => pc' \in {"sleep", "connect"}
       /\ pc = "exited" => pc' = "exited"
       /\ connection_count' >= connection_count]_vars

C3_Witness ==
    /\ pc = "sleep"
    /\ mqttoptions.reconnect = "AfterFirstSuccess"
    /\ connected_once
    /\ last_error # "none"

\* C4: once a user Disconnect has been written to the network the
\* supervisor makes no further connection attempt.
C4_DisconnectEndsSupervisor ==
    disconnect_sent => pc \notin {"sleep", "connect"}

\* C5: a send on the notification channel is only ever made when the
\* channel has a free slot, whatever the consumers do in between, and a
\* packet handled while the channel is full leaves the channel as it is.
C5_SendNeverBlocks ==
    /\ [](npc = "send" => Len(notifications) < NotificationChannelBound)
    /\ [][(npc = "idle" /\ is_full(notifications) /\ received' = received + 1)
            => (npc' = "idle" /\ notifications' = notifications)]_vars

C5_Witness ==
    /\ notification_dropped
    /\ npc = "send"
    /\ Len(notifications) = NotificationChannelBound - 1

\* C6: the notification channel never holds more than the configured
\* notification_channel_capacity.
C6_ConfiguredCapacity ==
    Len(notifications) <= mqttoptions.notification_channel_capacity

\* The request stream takes a Reconnect request by this step
TakesReconnect ==
    /\ pc = "session" /\ npc = "idle" /\ rs = "user"
    /\ userrequests # <<>>
    /\ Head(userrequests).kind = "Reconnect"
    /\ userrequests' = Tail(userrequests)

\* C7: taking a Reconnect request sets the session state's options to the
\* new ones, writes nothing, ends the session with UserReconnect, and the
\* supervisor goes on to a new connection attempt.
C7_ReconnectRequest ==
    [][TakesReconnect =>
         /\ mqtt_state'.opts = NewOptions
         /\ netout' \in {netout, <<>>}
         /\ last_error' = "UserReconnect"
         /\ pc' = "sleep"]_vars

\* C8: the packets of user requests are written in the order the requests
\* were submitted.
C8_UserOrder ==
    \A i, j \in 1..Len(netout) :
        (i < j /\ FromUser(i) /\ FromUser(j)) => netout[i].seq < netout[j].seq

C8_Witness ==
    \E i, j, k \in 1..Len(netout) :
        /\ i < j /\ j < k
        /\ FromUser(i) /\ FromUser(k)
        /\ netout[j].from \in {"reply", "ping"}

\* C9: in a session whose request senders are all dropped and whose
\* requests are all processed, the supervisor's next move is to exit: it
\* never goes on to another connection attempt.
C9_DrainedClientShutsDown ==
    [][(pc = "session" /\ ~sender_alive /\ userrequests = <<>> /\ rs = "done")
         => pc' \in {"session", "exited"}]_vars

\* C10: when the supervisor has left its loop no notification sender is
\* left, and a user who keeps receiving drains the channel and then sees
\* its end.
C10_ChannelCloses ==
    /\ [](pc = "exited" => ~notification_tx_alive)
    /\ [](eos => notifications = <<>>)
    /\ (pc = "exited") ~> eos

C10_Witness ==
    pc = "exited" /\ eos /\ connected_once

\* The session ends with an error by this step
SessionEndsWithError == pc = "session" /\ pc' \in {"sleep", "exited"}

\* A session is entered after an earlier one by this step
SessionReestablished == pc = "connect" /\ pc' = "session" /\ connected_once

\* The notification is put on the channel, unless the channel is full
Offered(kind) ==
    \/ is_full(notifications)
    \/ notifications' = Append(notifications, Pkt(kind, 0, 0, FALSE))

\* C11: the step that ends a session with an error offers a Disconnection
\* notification to the notification channel, and the step that enters a
\* session after an earlier one offers a Reconnection notification.
C11_SessionBoundarySurfaced ==
    [][/\ SessionEndsWithError => Offered("Disconnection")
       /\ SessionReestablished => Offered("Reconnection")]_vars

\* The reply stream handles a packet by this step and the session goes on
HandlesPacket ==
    /\ pc = "session" /\ npc = "idle" /\ pc' = "session"
    /\ received' = received + 1

\* C12: a packet handled while the notification channel is full changes the
\* session state as handle_incoming says and has its reply written to the
\* network at once; only the notification is left out.
C12_DropKeepsStateAndReply ==
    [][(HandlesPacket /\ is_full(notifications)) =>
         \E p \in env.kinds :
            LET r == handle_incoming_mqtt_packet(mqtt_state, p)
            IN /\ r.err = "Ok"
               /\ mqtt_state' = r.st
               /\ netout' = forward_reply(netout, r.reply)
               /\ notifications' = notifications
               /\ npc' = "idle"]_vars

C12_Witness ==
    /\ notification_dropped
    /\ is_full(notifications)
    /\ Len(netout) > NotificationChannelBound
    /\ netout[Len(netout)].pkt = Pkt("Puback", 1, 0, FALSE)
    /\ ~mqtt_state.idle

\* C13: outgoing_pub holds one entry for each QoS1 publish submitted and
\* not yet acknowledged, so it never holds more entries than requests were
\* submitted, across connection losses and replays.
C13_InFlightCount ==
    Len(mqtt_state.outgoing_pub) <= submitted

\* The session state with the given allocator inputs
AllocState(last, pubs, rels) ==
    LET ids == SetToSeq(pubs)
    IN [mqtt_state EXCEPT
          !.last_pkid = last,
          !.outgoing_pub = [i \in 1..Len(ids) |-> Pkt("Publish", ids[i], 1, FALSE)],
          !.outgoing_rel = rels]

\* How far id is from the first candidate after last, going round
WalkDistance(last, id) == (id - ((last % MaxPkid) + 1) + MaxPkid) % MaxPkid

\* C14: for every last_pkid and every set of ids in use, the allocator
\* returns the first id of 1..MaxPkid after last_pkid (going round from
\* MaxPkid to 1) that is not in use, never 0 when one is free, and
\* fails exactly when all are in use; the ids in outgoing_pub and
\* outgoing_rel are in 1..MaxPkid and pairwise distinct.
C14_PacketIdAllocation ==
    /\ \A last \in 0..MaxPkid, pubs \in SUBSET Pkids :
         \A rels \in SUBSET (Pkids \ pubs) :
            LET used == pubs \cup rels
                id == next_pkid(AllocState(last, pubs, rels))
            IN /\ (id = 0) <=> (used = Pkids)
               /\ id # 0 =>
                    /\ id \in Pkids \ used
                    /\ \A other \in Pkids \ used :
                         WalkDistance(last, id) <= WalkDistance(last, other)
    /\ Cardinality(SeqIds(mqtt_state.outgoing_pub)) = Len(mqtt_state.outgoing_pub)
    /\ SeqIds(mqtt_state.outgoing_pub) \cap mqtt_state.outgoing_rel = {}
    /\ SeqIds(mqtt_state.outgoing_pub) \cup mqtt_state.outgoing_rel \subseteq Pkids

C14_Witness ==
    /\ last_error = "PacketIdsExhausted"
    /\ SeqIds(mqtt_state.outgoing_pub) = Pkids
    /\ mqtt_state.last_pkid = MaxPkid

Pubrec(id) == Pkt("Pubrec", id, 0, FALSE)

PingUnanswered ==
    /\ pc = "session"
    /\ netout # <<>>
    /\ netout[Len(netout)].from = "ping"

\* C16: a session whose last written packet is a keep-alive PingReq does
\* not stay like that for ever when no packet arrives from the broker: it
\* ends (or writes or receives something else).
C16_KeepAliveTimeout ==
    \A n \in 0..MaxIncoming :
        [](PingUnanswered /\ received = n => <>(~PingUnanswered \/ received # n))

ValidClientId(client_id) == client_id # <<>> /\ Head(client_id) # " "

\* C17: the client id of the options value is never empty and never starts
\* with a space; a set_client_id call, direct or through the builder,
\* panics exactly when its argument is empty or starts with a space, and
\* otherwise the argument is the client id.
C17_ClientIdValidated ==
    /\ ValidClientId(inner.client_id)
    /\ setter.name = "set_client_id" =>
         /\ setter.panicked <=> ~ValidClientId(setter.arg)
         /\ ~setter.panicked => inner.client_id = setter.arg

C17_Witness ==
    /\ setter.name = "set_client_id"
    /\ setter.via = "builder"
    /\ setter.arg = <<" ", "c">>
    /\ setter.panicked

\* C18: the options value always has keep_alive >= 10 s, max_packet_size > 0,
\* outgoing_ratelimit other than Some(0) and a non-zero outgoing_queuelimit
\* threshold.
C18_OptionsValidated ==
    /\ inner.keep_alive >= MinKeepAlive
    /\ inner.max_packet_size > 0
    /\ inner.outgoing_ratelimit # <<0>>
    /\ inner.outgoing_queuelimit # 0

\* The ping stream's PingReq is written by this step
PingWritten ==
    /\ pc = "session"
    /\ Len(netout') = Len(netout) + 1
    /\ netout'[Len(netout')].from = "ping"

\* C20: a PingReq of the ping stream is written only while no ping is
\* awaiting its PingResp, and writing it sets await_pingresp and ends the
\* idle period.
C20_OnePingOutstanding ==
    [][PingWritten =>
         /\ ~mqtt_state.await_pingresp
         /\ mqtt_state'.await_pingresp
         /\ ~mqtt_state'.idle]_vars

\* The number of bytes a remaining length takes
LengthBytes(n) ==
    IF n < 128 THEN 1 ELSE IF n < 16384 THEN 2 ELSE IF n < 2097152 THEN 3 ELSE 4

\* C19: a packet that was encoded and decoded is the packet that was
\* given; a remaining length is encoded in 1 to 4 bytes, as many as its
\* size asks for, and decodes to the value that was given, using all of
\* the bytes.
C19_CodecRoundTrip ==
    /\ (frame.kind = "packet" /\ frame.phase = "decoded") => frame.out = frame.value
    /\ (frame.kind = "length" /\ frame.phase \in {"encoded", "decoded"})
         => Len(frame.bytes) = LengthBytes(frame.value)
    /\ (frame.kind = "length" /\ frame.phase = "decoded")
         => frame.out = [ok |-> TRUE, value |-> frame.value, used |-> Len(frame.bytes)]

C19_Witness ==
    /\ frame.kind = "length"
    /\ frame.phase = "decoded"
    /\ frame.value = 268435455
    /\ frame.bytes = <<255, 255, 255, 127>>

Pubrel(id) == Pkt("Pubrel", id, 0, FALSE)

Pubcomp(id) == Pkt("Pubcomp", id, 0, FALSE)

\* The reply of the packet handled by this step is pkt: written at once, or
\* held until the notification that precedes it is sent
ReplyIs(pkt) ==
    IF npc' = "send" THEN pending'.reply = pkt
    ELSE netout' = Append(netout, Written(pkt, "reply", 0))

\* C21: no packet id is in outgoing_pub and in outgoing_rel at the same
\* time.  PubRec(id) for an id of outgoing_pub is accepted, moves the id to
\* outgoing_rel and has PubRel(id) as its reply; PubComp(id) is accepted and
\* takes the id out of outgoing_rel, after which neither table holds it.  In
\* the running session an id leaves outgoing_pub only into outgoing_rel,
\* with PubRel(id) as the reply of that step, and a held reply is written
\* when its notification has been sent.
C21_Qos2OutgoingTables ==
    /\ [](SeqIds(mqtt_state.outgoing_pub) \cap mqtt_state.outgoing_rel = {})
    /\ [](\A id \in SeqIds(mqtt_state.outgoing_pub) :
            LET r == handle_incoming_mqtt_packet(mqtt_state, Pubrec(id))
            IN /\ r.err = "Ok"
               /\ id \notin SeqIds(r.st.outgoing_pub)
               /\ r.st.outgoing_rel = mqtt_state.outgoing_rel \cup {id}
               /\ r.reply = Pubrel(id))
    /\ [](\A id \in mqtt_state.outgoing_rel :
            LET r == handle_incoming_mqtt_packet(mqtt_state, Pubcomp(id))
            IN /\ r.err = "Ok"
               /\ r.st.outgoing_rel = mqtt_state.outgoing_rel \ {id}
               /\ id \notin SeqIds(r.st.outgoing_pub))
    /\ [][HandlesPacket =>
            \A id \in Pkids :
               /\ (id \in SeqIds(mqtt_state.outgoing_pub)
                     /\ id \notin SeqIds(mqtt_state'.outgoing_pub))
                    => (id \in mqtt_state'.outgoing_rel /\ ReplyIs(Pubrel(id)))
               /\ (id \in mqtt_state.outgoing_rel /\ id \notin mqtt_state'.outgoing_rel)
                    => id \notin SeqIds(mqtt_state'.outgoing_pub)]_vars
    /\ [][(npc = "send" /\ npc' = "idle")
            => netout' = forward_reply(netout, pending.reply)]_vars

\* A QoS2 publish went out as id 1, its PubRec brought the PubRel, and its
\* PubComp emptied both tables
C21_Witness ==
    /\ pc = "session"
    /\ Len(netout) = 2
    /\ netout[1].pkt = Pkt("Publish", 1, 2, FALSE)
    /\ netout[2] = Written(Pubrel(1), "reply", 0)
    /\ notifications = <<Pubrec(1), Pubcomp(1)>>
    /\ mqtt_state.outgoing_pub = <<>>
    /\ mqtt_state.outgoing_rel = {}

\* A stream of the session, or its sink, raises an error by this step
ErrorRaised ==
    /\ pc = "session"
    /\ last_error = "none"
    /\ last_error' \notin {"none", "panic"}

\* C22: the step in which a stream of the session or the sink raises an
\* error ends the session, writes nothing and applies the reconnect policy
\* (exit or sleep); while no session runs nothing is on a connection's
\* sink, no incoming packet is handled and no request leaves the request
\* channel.
C22_ErrorEndsSession ==
    /\ [][ErrorRaised =>
            /\ pc' = IF reconnect_policy(mqttoptions.reconnect, connection_count) = "break"
                     THEN "exited" ELSE "sleep"
            /\ npc' = "idle"
            /\ netout' = <<>>]_vars
    /\ [](pc # "session" => (netout = <<>> /\ npc = "idle"))
    /\ [][pc # "session" =>
            /\ received' = received
            /\ \/ userrequests' = userrequests
               \/ Len(userrequests') = Len(userrequests) + 1]_vars

\* A session ended when the broker acknowledged a publish that was not in
\* flight, with a request still queued
C22_Witness ==
    /\ pc = "sleep"
    /\ last_error = "UnsolicitedAck"
    /\ userrequests # <<>>
    /\ received = 1

\* The session state after the Connect packet was built and sent
Handshaking == [mqtt_state EXCEPT !.connection_status = "Handshaking"]

\* What can come first after Connect: ConnAck(0), a ConnAck with another
\* code, another packet, the end of the stream
HandshakeResponses == {"Accepted", "Refused", "NotConnack", "NoResponse"}

\* What the first packet after Connect leads to
HandshakeOutcome(response) ==
    CASE response = "Accepted" -> "Ok"
      [] response = "Refused" -> "ConnAckFailed"
      [] response = "NotConnack" -> "NotConnackPacket"
      [] response = "NoResponse" -> "NoResponse"

\* C23: of the first things received after Connect only a ConnAck with
\* return code 0 is accepted and sets connection_status to Connected; a
\* ConnAck with another code gives ConnAckFailed, another packet
\* NotConnackPacket, the end of the stream NoResponse, and none of these
\* connects.  connection_status becomes Connected only in the step that
\* enters a session; a connect that fails leaves connection_count as it is
\* and enters no session, and a session only runs with a connected state.
C23_HandshakeGatesSession ==
    /\ [](\A response \in HandshakeResponses :
            LET r == check_and_validate_connack(response, Handshaking)
            IN /\ r.err = HandshakeOutcome(response)
               /\ (r.st.connection_status = "Connected") <=> (response = "Accepted"))
    /\ [](pc = "session" => mqtt_state.connection_status \in {"Connected", "Disconnecting"})
    /\ [][(mqtt_state.connection_status # "Connected"
             /\ mqtt_state'.connection_status = "Connected")
            => (pc = "connect" /\ pc' = "session"
                  /\ connection_count' = connection_count + 1)]_vars
    /\ [][(pc = "connect" /\ pc' # "session")
            => /\ connection_count' = connection_count
               /\ mqtt_state'.connection_status
                     \in {mqtt_state.connection_status, "Handshaking"}]_vars
    /\ [][pc' = "session" => (pc = "session" \/ last_error' = "none")]_vars

\* After one session, a second handshake was refused by the broker
C23_Witness ==
    /\ pc = "sleep"
    /\ last_error = "ConnAckFailed"
    /\ connected_once
    /\ connection_count = 2
    /\ mqtt_state.connection_status = "Handshaking"

\* The request stream takes a request of the given kind by this step
Takes(kind) ==
    /\ pc = "session" /\ npc = "idle" /\ rs = "user"
    /\ userrequests # <<>>
    /\ Head(userrequests).kind = kind
    /\ userrequests' = Tail(userrequests)

\* C24: a packet whose reply is Request::None is handled with nothing
\* written for it, and a Request::None taken from the request channel is
\* dropped: nothing is written and the session goes on.
C24_NoneIsDiscarded ==
    [][/\ HandlesPacket => Len(netout') = Len(netout)
       /\ (npc = "send" /\ npc' = "idle" /\ pending.reply = NoPacket) => netout' = netout
       /\ Takes("None") => (netout' = netout /\ pc' = "session")]_vars

\* C25: an Unsubscribe request taken in a session has an Unsubscribe
\* packet written, under the next free packet id, and the session goes on.
C25_UnsubscribeWritten ==
    [][Takes("Unsubscribe") =>
         /\ pc' = "session"
         /\ netout' = Append(netout,
                             Written(Pkt("Unsubscribe", next_pkid(mqtt_state), 0, FALSE),
                                     "user", Head(userrequests).seq))]_vars

\* C26: whenever the supervisor is about to make a connection attempt, the
\* first or a later one, connection_status is Disconnected, which is what
\* building the Connect packet requires.
C26_ConnectStartsDisconnected ==
    pc = "connect" => mqtt_state.connection_status = "Disconnected"

\* C27: the options of the Connection, which the reconnect policy, the ping
\* timer and the TCP connect read, are never changed.  Taking a Reconnect
\* request changes opts of the session state and nothing else of it, and
\* the policy applied to the UserReconnect error is the one of the options
\* the client was started with: exit under Never, sleep otherwise.
C27_ReconnectChangesOnlySessionOpts ==
    [][/\ mqttoptions' = mqttoptions
       /\ Takes("Reconnect") =>
            /\ mqtt_state' = [mqtt_state EXCEPT !.opts = NewOptions]
            /\ connection_count' = connection_count
            /\ pc' = IF mqttoptions.reconnect = "Never" THEN "exited" ELSE "sleep"]_vars

\* A session that runs after a Reconnect request: the session state has the
\* new options, the Connection the ones the client was started with
C27_Witness ==
    /\ pc = "session"
    /\ connection_count = 3
    /\ mqtt_state.opts = NewOptions
    /\ mqttoptions.reconnect = "AfterFirstSuccess"
    /\ mqttoptions.clean_session

===========================================================================
